---- MODULE Spec2Model ----
(***************************************************************************)
(* Market simulation engine of tradestick.                                 *)
(*                                                                         *)
(*   backend  : src/backend/src/marketSimulator.js (class MarketSimulator) *)
(*              driven by the server src/unnamed/part_010                  *)
(*   frontend : src/unnamed/part_008 (class MarketSimulator, client side)  *)
(*                                                                         *)
(* Numbers are fixed point integers:                                       *)
(*   prices      in units of 0.000001     (1.1 is 1100000)                 *)
(*   trade sizes in units of 0.1          (1.0 is 10)                      *)
(*   thresholds  in units of 0.1 percent  (0.2 % is 2)                     *)
(*   times       in milliseconds                                           *)
(*   multipliers in units of 0.000001     (1.0 is 1000000)                 *)
(* Math.random() and normalRandom() are inputs of the actions.             *)
(***************************************************************************)
EXTENDS Integers, Sequences, FiniteSets, TLC

VARIABLES
    clock,                \* Date.now()
    \* ---- backend MarketSimulator
    config,
    currentPrice,
    lastUpdateTime,
    intervalId,
    timers,               \* the setInterval timers that are live
    trades,
    candles,
    candlesByInterval,
    currentCandles,
    lastCandleTimes,
    priceChangeTrackers,
    lastTradeTime,
    volatilityMultiplier, \* local of generateMarketData, as of the last call
    marketData,           \* last snapshot returned by generateMarketData
    tradeResult,          \* last value returned by executeTrade
    \* ---- backend server (src/unnamed/part_010)
    amplitudeSettings,
    configReply,          \* last reply of a configuration handler: error, configuration
    \* ---- serverless socket API (src/api/socket.js)
    settings,
    marketDataGenerator,  \* null, or the MarketDataGenerator in use
    genData,              \* last data emitted by the serverless socket API
    \* ---- frontend MarketSimulator
    feConfig,
    feCurrentPrice,
    feLastUpdateTime,
    feCandles,
    feTrades,
    patternStartTime,
    patternProgress,
    patternBasePrice,
    feMarketData,
    feTick,               \* the last updatePrice call: time, configuration, progress, drift
    \* ---- history of the run (not program state)
    attempts,             \* every executeTrade call: time, side, size, result
    executed,             \* every trade ever recorded by the backend
    feAdded,              \* every trade ever added to the frontend simulator
    closed,               \* per bucket size, every candle ever closed
    feOpened,             \* every candle timestamp the frontend ever opened
    ingested,             \* every <<timestamp, price>> fed to updateCandles
    produced,             \* every price generateMarketData produced, with its time
    updates,              \* every configuration update: the engine and the body
    steps                 \* number of clock advances so far

beVars == <<config, currentPrice, lastUpdateTime, intervalId, timers, trades, candles,
            candlesByInterval, currentCandles, lastCandleTimes,
            priceChangeTrackers, lastTradeTime, volatilityMultiplier,
            marketData, tradeResult>>
feVars == <<feConfig, feCurrentPrice, feLastUpdateTime, feCandles, feTrades,
            patternStartTime, patternProgress, patternBasePrice, feMarketData,
            feTick>>
svVars == <<amplitudeSettings, configReply>>
genVars == <<settings, marketDataGenerator, genData>>
histVars == <<attempts, executed, feAdded, closed, feOpened, ingested, steps,
              produced, updates>>
vars == <<clock, beVars, svVars, genVars, feVars, histVars>>

(***************************************************************************)
(* Program constants                                                       *)
(***************************************************************************)
MaxTrades == 50              \* trade log capacity (both simulators)
MaxCandles == 200            \* backend candle series capacity
FeMaxCandles == 500          \* frontend candle series capacity
MaxCandlesToSend == 150      \* snapshot cap
RecentTrades == 20           \* snapshot cap on trades
PriceEpsilon == 10           \* 0.00001, the frontend price floor
FeInterval == 1000           \* frontend candle bucket
DefaultCandleInterval == 1000
DefaultPatternDuration == 30000
MsPerSecond == 1000
ProgressOne == 10000         \* pattern progress 1.0, in units of 0.0001
One == 1000000               \* multiplier 1.0
Milli == 10 * 100            \* resolution of the two factors of the boost
Undefined == 0 - 999999      \* a configuration field that is absent

Intervals == {10, 100, 1000, 5000}
TimeframeKeys == {"15s", "1m", "15m", "1h"}
TimeframeMs == [k \in TimeframeKeys |->
                  CASE k = "15s" -> 15000
                    [] k = "1m"  -> 60000
                    [] k = "15m" -> 900000
                    [] k = "1h"  -> 3600000]

RateLimitMsg == "Rate limit exceeded"
SizeMsg == "Trade size exceeds maximum"

(***************************************************************************)
(* Helpers                                                                 *)
(***************************************************************************)
Abs(x) == IF x < 0 THEN -x ELSE x
Min(a, b) == IF a < b THEN a ELSE b
Max(a, b) == IF a > b THEN a ELSE b

\* Array.prototype.slice(-n)
SliceLast(s, n) == IF Len(s) > n THEN SubSeq(s, Len(s) - n + 1, Len(s)) ELSE s
\* Array.prototype.slice(0, n)
SliceFirst(s, n) == IF Len(s) > n THEN SubSeq(s, 1, n) ELSE s

(***************************************************************************)
(* Backend: executeTrade                                                   *)
(***************************************************************************)
\* now - this.lastTradeTime < 1000 / this.config.maxTradesPerSecond
RateLimited_WrongUnit(now, last, mtps) == now - last < mtps
RateLimited(now, last, mtps) ==
    IF mtps > 0 THEN (now - last) * mtps < MsPerSecond
    ELSE IF mtps = 0 THEN TRUE
    ELSE (now - last) * mtps > MsPerSecond

\* Math.abs(trade.size) > this.config.maxTradeSize
SizeExceeded_Signed(size, maxSize) == size > maxSize
SizeExceeded(size, maxSize) == Abs(size) > maxSize

\* trade.side === 'buy' ? currentPrice + spread / 2 : currentPrice - spread / 2
FillPrice_Mid(side, price, spread) == price
FillPrice(side, price, spread) ==
    IF side = "buy" THEN price + spread \div 2 ELSE price - spread \div 2

MakeTrade(now, side, size, price) ==
    [id |-> now, timestamp |-> now, side |-> side, size |-> size,
     price |-> price, value |-> Abs(size) * price]

\* this.trades.push(t); if (length > 50) this.trades = this.trades.slice(-50)
PushTrade_DropNewest(log, t) == SliceFirst(Append(log, t), MaxTrades)
PushTrade(log, t) == SliceLast(Append(log, t), MaxTrades)

\* The value executeTrade returns for the call (side, size) at time now.
TradeOutcome_SizeFirst(now, side, size) ==
    IF SizeExceeded(size, config.maxTradeSize)
    THEN [success |-> FALSE, message |-> SizeMsg, trade |-> <<>>]
    ELSE IF RateLimited(now, lastTradeTime, config.maxTradesPerSecond)
    THEN [success |-> FALSE, message |-> RateLimitMsg, trade |-> <<>>]
    ELSE [success |-> TRUE, message |-> "",
          trade |-> <<MakeTrade(now, side, size,
                                FillPrice(side, currentPrice, config.spread))>>]
TradeOutcome(now, side, size) ==
    IF RateLimited(now, lastTradeTime, config.maxTradesPerSecond)
    THEN [success |-> FALSE, message |-> RateLimitMsg, trade |-> <<>>]
    ELSE IF SizeExceeded(size, config.maxTradeSize)
    THEN [success |-> FALSE, message |-> SizeMsg, trade |-> <<>>]
    ELSE [success |-> TRUE, message |-> "",
          trade |-> <<MakeTrade(now, side, size,
                                FillPrice(side, currentPrice, config.spread))>>]

\* lastTradeTime after a call with the given outcome
NextLastTradeTime_Always(now, r) == now
NextLastTradeTime(now, r) == IF r.success THEN now ELSE lastTradeTime

ExecuteTrade(side, size) ==
    LET now == clock
        r == TradeOutcome(now, side, size)
    IN /\ tradeResult' = <<r>>
       /\ trades' = IF r.success THEN PushTrade(trades, r.trade[1]) ELSE trades
       /\ lastTradeTime' = NextLastTradeTime(now, r)
       /\ attempts' = Append(attempts,
                             [time |-> now, side |-> side, size |-> size,
                              success |-> r.success, message |-> r.message])
       /\ executed' = IF r.success THEN Append(executed, r.trade[1]) ELSE executed
       /\ UNCHANGED <<clock, config, currentPrice, lastUpdateTime, intervalId,
                      timers, candles, candlesByInterval, currentCandles,
                      lastCandleTimes, priceChangeTrackers, volatilityMultiplier,
                      marketData, feVars, feAdded, closed, feOpened, ingested,
                      steps, produced, updates, svVars, genVars>>

(***************************************************************************)
(* Backend: candles                                                        *)
(***************************************************************************)
\* Math.floor(now / interval) * interval
IntervalStart(now, interval) == (now \div interval) * interval

NewCandle(ts, price, vol) ==
    [timestamp |-> ts, open |-> price, high |-> price, low |-> price,
     close |-> price, volume |-> vol]

MergeCandle_NoHigh(c, price, vol) ==
    [c EXCEPT !.low = Min(c.low, price), !.close = price,
              !.volume = c.volume + vol]
MergeCandle_Reopen(c, price, vol) == NewCandle(c.timestamp, price, vol)
MergeCandle(c, price, vol) ==
    [c EXCEPT !.high = Max(c.high, price), !.low = Min(c.low, price),
              !.close = price, !.volume = c.volume + vol]

\* push(current); if (length > 200) series = series.slice(-200)
CloseCandle_DropNewest(series, c) == SliceFirst(Append(series, c), MaxCandles)
CloseCandle(series, c) == SliceLast(Append(series, c), MaxCandles)

\* intervalStart > this.lastCandleTimes[interval]
OpensCandle_Differs(interval, now) ==
    IntervalStart(now, interval) # lastCandleTimes[interval]
OpensCandle(interval, now) ==
    IntervalStart(now, interval) > lastCandleTimes[interval]

\* updateCandleForInterval, as the new values of the three per-interval fields
UpdateCandleForInterval(interval, now, price, vol) ==
    LET start == IntervalStart(now, interval)
        cur == currentCandles[interval]
    IN IF OpensCandle(interval, now)
       THEN [series |-> IF cur # <<>>
                        THEN CloseCandle(candlesByInterval[interval], cur[1])
                        ELSE candlesByInterval[interval],
             current |-> <<NewCandle(start, price, vol)>>,
             last |-> start,
             closing |-> cur]
       ELSE IF cur # <<>>
       THEN [series |-> candlesByInterval[interval],
             current |-> <<MergeCandle(cur[1], price, vol)>>,
             last |-> lastCandleTimes[interval],
             closing |-> <<>>]
       ELSE [series |-> candlesByInterval[interval],
             current |-> cur,
             last |-> lastCandleTimes[interval],
             closing |-> <<>>]

\* this.candles = this.candlesByInterval[this.config.candleInterval]
SelectCandles(byInterval, sel) ==
    IF sel \in Intervals
    THEN [defined |-> TRUE, items |-> byInterval[sel]]
    ELSE [defined |-> FALSE, items |-> <<>>]

UpdateCandles(now, price, vol) ==
    LET u == [k \in Intervals |-> UpdateCandleForInterval(k, now, price, vol)]
    IN /\ candlesByInterval' = [k \in Intervals |-> u[k].series]
       /\ currentCandles' = [k \in Intervals |-> u[k].current]
       /\ lastCandleTimes' = [k \in Intervals |-> u[k].last]
       /\ candles' = SelectCandles([k \in Intervals |-> u[k].series],
                                   config.candleInterval)
       /\ closed' = [k \in Intervals |-> closed[k] \o u[k].closing]

(***************************************************************************)
(* Backend: amplitude trackers and the volatility multiplier               *)
(***************************************************************************)
ConfigKey == [k \in TimeframeKeys |->
                CASE k = "15s" -> "priceChangeThreshold15s"
                  [] k = "1m"  -> "priceChangeThreshold1m"
                  [] k = "15m" -> "priceChangeThreshold15m"
                  [] k = "1h"  -> "priceChangeThreshold1h"]

FreshTracker(now, price) ==
    [startTime |-> now, startPrice |-> price, minPrice |-> price,
     maxPrice |-> price]

\* One pass of the tracker loop for one window: widen, then reset if elapsed.
TrackerStep_Strict(tr, ms, now, price) ==
    LET t == [tr EXCEPT !.minPrice = Min(tr.minPrice, price),
                        !.maxPrice = Max(tr.maxPrice, price)]
    IN IF now - t.startTime > ms THEN FreshTracker(now, price) ELSE t
TrackerStep_NoWiden(tr, ms, now, price) ==
    IF now - tr.startTime >= ms THEN FreshTracker(now, price) ELSE tr
TrackerStep(tr, ms, now, price) ==
    LET t == [tr EXCEPT !.minPrice = Min(tr.minPrice, price),
                        !.maxPrice = Max(tr.maxPrice, price)]
    IN IF now - t.startTime >= ms THEN FreshTracker(now, price) ELSE t

\* this.config[tf.configKey] || 0
ThresholdPct_Default(cfg, k) ==
    IF cfg[ConfigKey[k]] = Undefined THEN 2 ELSE cfg[ConfigKey[k]]
ThresholdPct(cfg, k) ==
    IF cfg[ConfigKey[k]] = Undefined THEN 0 ELSE cfg[ConfigKey[k]]

\* amplitude < thresholdPct, amplitude = (max - min) / startPrice * 100.
\* The shortfall thresholdPct * startPrice - (max - min) * 100, in the units
\* of the model, is positive exactly when the comparison is true.
Shortfall(tr, th) == th * tr.startPrice - (tr.maxPrice - tr.minPrice) * 1000

\* progress > 0.6, progress = Math.min(1, elapsed / ms)
Late(tr, ms, now) == 10 * Min(now - tr.startTime, ms) > 6 * ms

\* 1 + ((thresholdPct - amplitude) / thresholdPct) * (progress - 0.6) * 5
\* with each of the two factors truncated to 0.001
Boost_NoProgress(tr, ms, now, th) ==
    One + ((Shortfall(tr, th) * Milli) \div (th * tr.startPrice)) * Milli
Boost(tr, ms, now, th) ==
    One + ((Shortfall(tr, th) * Milli) \div (th * tr.startPrice))
          * ((5 * Min(now - tr.startTime, ms) - 3 * ms) \div (ms \div Milli))

\* The candidate of one window (1 when the window does not trigger).
Candidate(tr, ms, now, th) ==
    IF th = 0 THEN One
    ELSE IF Late(tr, ms, now) /\ Shortfall(tr, th) > 0 THEN Boost(tr, ms, now, th)
    ELSE One

\* Math.max over the windows, starting from 1.0
Multiplier(trackers, cfg, now) ==
    LET c == [k \in TimeframeKeys |->
                Candidate(trackers[k], TimeframeMs[k], now, ThresholdPct(cfg, k))]
    IN Max(Max(Max(Max(One, c["15s"]), c["1m"]), c["15m"]), c["1h"])

(***************************************************************************)
(* Backend: price step and order book                                      *)
(***************************************************************************)
\* price * Math.exp(priceChange), Math.exp(priceChange) given as num/den.
\* A positive product stays positive; the factor 0 is the underflow of exp.
MulExp(price, f) ==
    IF f[1] = 0 \/ price = 0 THEN 0 ELSE Max(1, (price * f[1]) \div f[2])

\* priceChange = drift * deltaTime + volatility * randomComponent is 0 when
\* no time has passed (sqrt(deltaTime) = 0) or the volatility is 0.
PriceFactor(deltaTime, volatility, f) ==
    IF deltaTime = 0 \/ volatility = 0 THEN <<1, 1>> ELSE f

\* this.currentPrice *= Math.exp(priceChange)
NextPrice(price, f) == MulExp(price, f)

Levels(n) == IF n > 0 THEN n ELSE 0

\* bidPrice - (i * spread * 0.2), askPrice + (i * spread * 0.2), i from 0
OrderBookLevel_Flat(base, i, step) == base
OrderBookLevel(base, i, step) == base + i * step

GenerateOrderBook(bidPrice, askPrice, cfg) ==
    [bids |-> [i \in 1..Levels(cfg.orderBookLevels) |->
                 OrderBookLevel(bidPrice, i - 1, 0 - (cfg.spread \div 5))],
     asks |-> [i \in 1..Levels(cfg.orderBookLevels) |->
                 OrderBookLevel(askPrice, i - 1, cfg.spread \div 5)]]

(***************************************************************************)
(* Backend: generateMarketData                                             *)
(***************************************************************************)
\* limitedCandles and recentTrades
LimitedCandles(cs) == SliceLast(cs, MaxCandlesToSend)

GenerateMarketData(f) ==
    LET now == clock
        deltaTime == now - lastUpdateTime
        trackers == [k \in TimeframeKeys |->
                       TrackerStep(priceChangeTrackers[k], TimeframeMs[k], now,
                                   currentPrice)]
        price == NextPrice(currentPrice, PriceFactor(deltaTime, config.volatility, f))
        bidPrice == price - config.spread \div 2
        askPrice == price + config.spread \div 2
    IN /\ candles.defined      \* this.candles.length throws otherwise
       /\ lastUpdateTime' = now
       /\ priceChangeTrackers' = trackers
       /\ volatilityMultiplier' = Multiplier(trackers, config, now)
       /\ currentPrice' = price
       /\ marketData' = <<[timestamp |-> now, price |-> price, bid |-> bidPrice,
                           ask |-> askPrice,
                           orderBook |-> GenerateOrderBook(bidPrice, askPrice, config),
                           trades |-> SliceLast(trades, RecentTrades),
                           candles |-> LimitedCandles(candles.items)]>>
       /\ produced' = Append(produced, [time |-> now, price |-> price])

\* The setInterval callback of start(): generateMarketData, updateCandles.
TimerTick(f, vol) ==
    /\ timers # {}
    /\ GenerateMarketData(f)
    /\ UpdateCandles(marketData'[1].timestamp, marketData'[1].price, vol)
    /\ UNCHANGED <<clock, config, intervalId, timers, trades, lastTradeTime,
                   tradeResult, feVars, attempts, executed, feAdded, feOpened,
                   ingested, steps, updates, svVars, genVars>>

\* GET /api/market-data: generateMarketData alone.
GetMarketData(f) ==
    /\ GenerateMarketData(f)
    /\ UNCHANGED <<clock, config, intervalId, timers, trades, lastTradeTime,
                   tradeResult, candles, candlesByInterval, currentCandles,
                   lastCandleTimes, feVars, attempts, executed, feAdded, closed,
                   feOpened, ingested, steps, updates, svVars, genVars>>

\* updateCandles(marketData) called with a snapshot of the caller's making.
Ingest(ts, price, vol) ==
    /\ UpdateCandles(ts, price, vol)
    /\ ingested' = Append(ingested, <<ts, price>>)
    /\ UNCHANGED <<clock, config, currentPrice, lastUpdateTime, intervalId,
                   timers, trades, priceChangeTrackers, lastTradeTime,
                   volatilityMultiplier, marketData, tradeResult, feVars,
                   attempts, executed, feAdded, feOpened, steps, produced,
                   updates, svVars, genVars>>

NewTimer == CHOOSE n \in 1..(Cardinality(timers) + 1) : n \notin timers

\* if (this.intervalId) return; this.intervalId = setInterval(...)
Start_Always ==
    /\ intervalId' = NewTimer
    /\ timers' = timers \cup {NewTimer}
    /\ UNCHANGED <<clock, config, currentPrice, lastUpdateTime, trades, candles,
                   candlesByInterval, currentCandles, lastCandleTimes,
                   priceChangeTrackers, lastTradeTime, volatilityMultiplier,
                   marketData, tradeResult, feVars, histVars, svVars, genVars>>
Start ==
    /\ IF intervalId # 0
       THEN UNCHANGED <<intervalId, timers>>
       ELSE /\ intervalId' = NewTimer
            /\ timers' = timers \cup {NewTimer}
    /\ UNCHANGED <<clock, config, currentPrice, lastUpdateTime, trades, candles,
                   candlesByInterval, currentCandles, lastCandleTimes,
                   priceChangeTrackers, lastTradeTime, volatilityMultiplier,
                   marketData, tradeResult, feVars, histVars, svVars, genVars>>

Stop ==
    /\ IF intervalId # 0
       THEN /\ timers' = timers \ {intervalId}
            /\ intervalId' = 0
       ELSE UNCHANGED <<intervalId, timers>>
    /\ UNCHANGED <<clock, config, currentPrice, lastUpdateTime, trades, candles,
                   candlesByInterval, currentCandles, lastCandleTimes,
                   priceChangeTrackers, lastTradeTime, volatilityMultiplier,
                   marketData, tradeResult, feVars, histVars, svVars, genVars>>

\* Time passes.
Elapse(d) ==
    /\ clock' = clock + d
    /\ steps' = steps + 1
    /\ UNCHANGED <<beVars, feVars, attempts, executed, feAdded, closed, feOpened,
                   ingested, produced, updates, svVars, genVars>>

(***************************************************************************)
(* Frontend simulator                                                      *)
(***************************************************************************)
\* this.currentPrice *= Math.exp(priceChange);
\* this.currentPrice = Math.max(this.currentPrice, 0.00001)
FeNextPrice(price, f) == Max(MulExp(price, f), PriceEpsilon)

\* priceChange = drift * deltaTime + randomComponent: 0 when no time passed
FePriceFactor(deltaTime, f) == IF deltaTime = 0 THEN <<1, 1>> ELSE f

\* this.config.patternDuration || 30000
PatternDuration(cfg) ==
    IF cfg.patternDuration = Undefined \/ cfg.patternDuration = 0
    THEN DefaultPatternDuration ELSE cfg.patternDuration

\* Math.min(1, (now - this.patternStartTime) / patternDuration)
PatternProgress(now, start, duration) ==
    IF now - start >= duration THEN ProgressOne
    ELSE ((now - start) * ProgressOne) \div duration

\* this.config.patternStrength || 0.5, in tenths
PatternStrength(cfg) ==
    IF cfg.patternStrength = Undefined \/ cfg.patternStrength = 0
    THEN 5 ELSE cfg.patternStrength

\* A drift is value * 10^-scale.  With s the strength in tenths,
\* adjustedStrength = s * 0.1 * 0.01 is 10 * s at scale 4.
Drift(value, scale) == [value |-> value, scale |-> scale]
Steady(value) == Drift(value, 4)

\* case 'head_and_shoulders', p the pattern progress in units of 0.0001
HeadAndShoulders_NoHead(p, s) ==
    IF p < 2500 THEN Steady(10 * s)
    ELSE IF p < 3000 THEN Steady(0 - 10 * s)
    ELSE IF p < 5000 THEN Steady(10 * s)
    ELSE IF p < 5500 THEN Steady(0 - 10 * s)
    ELSE IF p < 7500 THEN Steady(10 * s)
    ELSE Steady(0 - 20 * s)
HeadAndShoulders(p, s) ==
    IF p < 2500 THEN Steady(10 * s)
    ELSE IF p < 3000 THEN Steady(0 - 10 * s)
    ELSE IF p < 5000 THEN Steady(15 * s)
    ELSE IF p < 5500 THEN Steady(0 - 15 * s)
    ELSE IF p < 7500 THEN Steady(10 * s)
    ELSE Steady(0 - 20 * s)

\* case 'double_top'
DoubleTop(p, s) ==
    IF p < 3000 THEN Steady(10 * s)
    ELSE IF p < 4000 THEN Steady(0 - 10 * s)
    ELSE IF p < 7000 THEN Steady(10 * s)
    ELSE Steady(0 - 20 * s)

\* case 'double_bottom'
DoubleBottom(p, s) ==
    IF p < 3000 THEN Steady(0 - 10 * s)
    ELSE IF p < 4000 THEN Steady(10 * s)
    ELSE IF p < 7000 THEN Steady(0 - 10 * s)
    ELSE Steady(20 * s)

\* (this.patternBasePrice - this.currentPrice) * 0.01, prices in 0.000001
MeanReversion(base, price) == Drift(base - price, 8)

\* getPatternDrift: p the progress, n the normalRandom() sample in tenths
GetPatternDrift(cfg, p, base, price, n) ==
    LET s == PatternStrength(cfg)
        type == cfg.patternType
    IN CASE type = "uptrend" -> Steady(10 * s)
         [] type = "downtrend" -> Steady(0 - 10 * s)
         [] type = "volatile" -> Steady(3 * n * s)
         [] type = "sideways" -> Drift((base - price) * s, 11)
         [] type = "breakout_up" ->
               IF p < 7000 THEN MeanReversion(base, price) ELSE Steady(30 * s)
         [] type = "breakout_down" ->
               IF p < 7000 THEN MeanReversion(base, price) ELSE Steady(0 - 30 * s)
         [] type = "head_and_shoulders" -> HeadAndShoulders(p, s)
         [] type = "double_top" -> DoubleTop(p, s)
         [] type = "double_bottom" -> DoubleBottom(p, s)
         [] OTHER -> Steady(0)

\* updateCandle(timestamp): the series after the call
FeKeep(cs) == SliceLast(cs, FeMaxCandles)
FeUpdateCandle(cs, ts, price, vol) ==
    LET start == IntervalStart(ts, FeInterval)
    IN IF Len(cs) = 0 \/ cs[Len(cs)].timestamp < start
       THEN FeKeep(Append(cs, NewCandle(start, price, vol)))
       ELSE [cs EXCEPT ![Len(cs)] = MergeCandle(cs[Len(cs)], price, vol)]

FeOpens(cs, ts) ==
    Len(cs) = 0 \/ cs[Len(cs)].timestamp < IntervalStart(ts, FeInterval)

\* bidPrice * (1 - 0.0001 * (i + 1)), askPrice * (1 + 0.0001 * (i + 1)),
\* i from 0, in units of 0.0001 of the price unit
FeOrderBookLevel(base, i, sign) == base * (10000 + sign * (i + 1))

FeGenerateOrderBook(bidPrice, askPrice, cfg) ==
    [bids |-> [i \in 1..Levels(cfg.orderBookLevels) |->
                 FeOrderBookLevel(bidPrice, i - 1, 0 - 1)],
     asks |-> [i \in 1..Levels(cfg.orderBookLevels) |->
                 FeOrderBookLevel(askPrice, i - 1, 1)]]

FeGenerateMarketData(f, vol, n) ==
    LET now == clock
        deltaTime == now - feLastUpdateTime
        active == feConfig.patternType # ""
        progress == IF active
                    THEN PatternProgress(now, patternStartTime, PatternDuration(feConfig))
                    ELSE patternProgress
        price == FeNextPrice(feCurrentPrice, FePriceFactor(deltaTime, f))
        bidPrice == price - feConfig.spread \div 2
        askPrice == price + feConfig.spread \div 2
        cs == FeUpdateCandle(feCandles, now, price, vol)
    IN /\ feLastUpdateTime' = now
       /\ patternProgress' = progress
       /\ feTick' = <<[time |-> now, config |-> feConfig, progress |-> progress,
                       drift |-> IF active
                                 THEN <<GetPatternDrift(feConfig, progress,
                                                        patternBasePrice,
                                                        feCurrentPrice, n)>>
                                 ELSE <<>>,
                       updates |-> Len(updates)]>>
       /\ feCurrentPrice' = price
       /\ feCandles' = cs
       /\ feOpened' = IF FeOpens(feCandles, now)
                      THEN Append(feOpened, IntervalStart(now, FeInterval))
                      ELSE feOpened
       /\ feMarketData' = <<[timestamp |-> now, price |-> price, bid |-> bidPrice,
                             ask |-> askPrice,
                             orderBook |-> FeGenerateOrderBook(bidPrice, askPrice,
                                                               feConfig),
                             trades |-> feTrades, candles |-> cs]>>
       /\ UNCHANGED <<clock, beVars, feConfig, feTrades, patternStartTime,
                      patternBasePrice, attempts, executed, feAdded, closed,
                      ingested, steps, produced, updates, svVars, genVars>>

\* this.trades.unshift(trade); if (length > 50) trades = trades.slice(0, 50)
FePushTrade(log, t) == SliceFirst(<<t>> \o log, MaxTrades)

FeAddTrade(side, size, price) ==
    LET t == MakeTrade(clock, side, size, price)
    IN /\ feTrades' = FePushTrade(feTrades, t)
       /\ feAdded' = Append(feAdded, t)
       /\ UNCHANGED <<clock, beVars, feConfig, feCurrentPrice, feLastUpdateTime,
                      feCandles, patternStartTime, patternProgress,
                      patternBasePrice, feMarketData, feTick, attempts, executed, closed,
                      feOpened, ingested, steps, produced, updates, svVars,
                      genVars>>

(***************************************************************************)
(* Configuration updates                                                   *)
(***************************************************************************)
\* { ...a, ...b }
Merge(a, b) ==
    [k \in (DOMAIN a) \cup (DOMAIN b) |-> IF k \in DOMAIN b THEN b[k] ELSE a[k]]

\* allowedKeys of the two POST handlers
ThresholdKeys == {"priceChangeThreshold15s", "priceChangeThreshold1m",
                  "priceChangeThreshold15m", "priceChangeThreshold1h"}

\* typeof req.body[key] === 'number'
HasNumber(body, k) == k \in DOMAIN body /\ body[k] # Undefined

\* the loop over allowedKeys: the shared amplitudeSettings after it
SetAmplitude(body) ==
    [k \in ThresholdKeys |->
        IF HasNumber(body, k) THEN body[k] ELSE amplitudeSettings[k]]

\* MarketSimulator.updateConfig(newConfig) of the backend
UpdateConfig(newConfig) == config' = Merge(config, newConfig)

\* prior is the patternType in force before an update of the client simulator
Updated(engine, body) ==
    updates' = Append(updates,
                      [engine |-> engine, time |-> clock, body |-> body,
                       prior |-> IF engine = "frontend" THEN feConfig.patternType
                                 ELSE ""])

\* socket.on('updateConfig')
OnUpdateConfig(body) ==
    /\ UpdateConfig(body)
    /\ configReply' = <<[error |-> "", config |-> config']>>
    /\ Updated("backend", body)
    /\ UNCHANGED <<clock, currentPrice, lastUpdateTime, intervalId, timers, trades,
                   candles, candlesByInterval, currentCandles, lastCandleTimes,
                   priceChangeTrackers, lastTradeTime, volatilityMultiplier,
                   marketData, tradeResult, amplitudeSettings, genVars, feVars,
                   attempts, executed, feAdded, closed, feOpened, ingested, steps,
                   produced>>

\* app.post('/api/config')
PostConfig(body) ==
    /\ UpdateConfig(body)
    /\ amplitudeSettings' = SetAmplitude(body)
    /\ configReply' = <<[error |-> "", config |-> config']>>
    /\ Updated("backend", body)
    /\ UNCHANGED <<clock, currentPrice, lastUpdateTime, intervalId, timers, trades,
                   candles, candlesByInterval, currentCandles, lastCandleTimes,
                   priceChangeTrackers, lastTradeTime, volatilityMultiplier,
                   marketData, tradeResult, genVars, feVars, attempts, executed,
                   feAdded, closed, feOpened, ingested, steps, produced>>

\* app.post('/api/amplitude-settings')
PostAmplitudeSettings(body) ==
    LET changed == \E k \in ThresholdKeys : HasNumber(body, k)
    IN /\ amplitudeSettings' = SetAmplitude(body)
       /\ IF changed THEN UpdateConfig(amplitudeSettings') ELSE config' = config
       /\ configReply' = <<[error |-> "", config |-> amplitudeSettings']>>
       /\ Updated("backend", body)
       /\ UNCHANGED <<clock, currentPrice, lastUpdateTime, intervalId, timers,
                      trades, candles, candlesByInterval, currentCandles,
                      lastCandleTimes, priceChangeTrackers, lastTradeTime,
                      volatilityMultiplier, marketData, tradeResult, genVars,
                      feVars, attempts, executed, feAdded, closed, feOpened,
                      ingested, steps, produced>>

\* if (config.patternType); an undefined patternType is the empty string here
Truthy(body, k) == k \in DOMAIN body /\ body[k] # ""

\* MarketSimulator.updateConfig(config) of the client simulator
FeUpdateConfig(body) ==
    /\ feConfig' = Merge(feConfig, body)
    /\ IF Truthy(body, "patternType")
       THEN /\ patternStartTime' = clock
            /\ patternProgress' = 0
            /\ patternBasePrice' = feCurrentPrice
       ELSE UNCHANGED <<patternStartTime, patternProgress, patternBasePrice>>
    /\ Updated("frontend", body)
    /\ UNCHANGED <<clock, beVars, svVars, genVars, feCurrentPrice,
                   feLastUpdateTime, feCandles, feTrades, feMarketData, feTick,
                   attempts,
                   executed, feAdded, closed, feOpened, ingested, steps, produced>>

(***************************************************************************)
(* Serverless socket API and its MarketDataGenerator                       *)
(* (prices of the generator in units of 0.00005)                           *)
(***************************************************************************)
GenInitialPrice == 20000000  \* this.currentPrice = 1000
GenHalfSpread == 1           \* spread / 2, spread = 0.0001
GenMaxCandles == 200

DefaultSettings ==
    [symbol |-> "ETHUSDT", interval |-> 1000, volatility |-> 2, trend |-> 0,
     volumeVolatility |-> 5]

\* new MarketDataGenerator(st) at time now
NewGenerator(st, now) ==
    [settings |-> st, currentPrice |-> GenInitialPrice, lastUpdateTime |-> now,
     candles |-> <<>>, currentCandle |-> <<>>, lastCandleTime |-> 0]

\* io.on('connection')
Connect ==
    /\ marketDataGenerator' =
         IF marketDataGenerator = <<>> THEN <<NewGenerator(settings, clock)>>
         ELSE marketDataGenerator
    /\ UNCHANGED <<clock, beVars, svVars, settings, genData, feVars, histVars>>

\* socket.on('updateSettings'), registered by a connection
UpdateSettings(newSettings) ==
    /\ marketDataGenerator # <<>>
    /\ settings' = Merge(settings, newSettings)
    /\ marketDataGenerator' = <<NewGenerator(settings', clock)>>
    /\ Updated("generator", newSettings)
    /\ UNCHANGED <<clock, beVars, svVars, genData, feVars, attempts, executed,
                   feAdded, closed, feOpened, ingested, steps, produced>>

\* MarketDataGenerator.generateNextCandle, called by the setInterval callback
GenerateNextCandle(f, vol) ==
    /\ marketDataGenerator # <<>>
    /\ LET g == marketDataGenerator[1]
           now == clock
           deltaTime == now - g.lastUpdateTime
           price == MulExp(g.currentPrice, IF deltaTime = 0 THEN <<1, 1>> ELSE f)
           start == IntervalStart(now, g.settings.interval)
           opens == start > g.lastCandleTime
           cs == IF opens /\ g.currentCandle # <<>>
                 THEN SliceLast(Append(g.candles, g.currentCandle[1]), GenMaxCandles)
                 ELSE g.candles
           cur == IF opens THEN <<NewCandle(start, price, vol)>>
                  ELSE IF g.currentCandle # <<>>
                  THEN <<MergeCandle(g.currentCandle[1], price, vol)>>
                  ELSE g.currentCandle
       IN /\ marketDataGenerator' =
               <<[g EXCEPT !.lastUpdateTime = now, !.currentPrice = price,
                           !.candles = cs, !.currentCandle = cur,
                           !.lastCandleTime = IF opens THEN start ELSE @]>>
          /\ genData' = <<[timestamp |-> now, price |-> price,
                           bid |-> price - GenHalfSpread,
                           ask |-> price + GenHalfSpread,
                           symbol |-> g.settings.symbol,
                           candles |-> cs \o cur]>>
    /\ UNCHANGED <<clock, beVars, svVars, settings, feVars, histVars>>

(***************************************************************************)
(* Construction                                                            *)
(***************************************************************************)
\* defaultConfig of the server
DefaultConfig ==
    [initialPrice |-> 1100000, volatility |-> 1, spread |-> 100,
     updateInterval |-> 10, orderBookLevels |-> 5, maxTradeSize |-> 10,
     maxTradesPerSecond |-> 10, candleInterval |-> 1000,
     priceChangeThreshold15s |-> 2, priceChangeThreshold1m |-> 5,
     priceChangeThreshold15m |-> 15, priceChangeThreshold1h |-> 30]

\* the configuration the application builds the client simulator with
FeDefaultConfig ==
    [initialPrice |-> 1100000, volatility |-> 1, spread |-> 200,
     updateInterval |-> 10, orderBookLevels |-> 10, patternType |-> "random_walk",
     patternStrength |-> 5, patternDuration |-> 30000]

\* new MarketSimulator(cfg) of the backend and new MarketSimulator(fcfg) of
\* the frontend, both at time now; fvol is the first candle's random volume.
Construct(cfg, fcfg, now, fvol) ==
    /\ clock = now
    /\ config = [cfg EXCEPT !.candleInterval =
                    IF @ = Undefined \/ @ = 0 THEN DefaultCandleInterval ELSE @]
    /\ currentPrice = cfg.initialPrice
    /\ lastUpdateTime = now
    /\ intervalId = 0
    /\ timers = {}
    /\ trades = <<>>
    /\ candles = [defined |-> TRUE, items |-> <<>>]
    /\ candlesByInterval = [k \in Intervals |-> <<>>]
    /\ currentCandles = [k \in Intervals |-> <<>>]
    /\ lastCandleTimes = [k \in Intervals |-> 0]
    /\ priceChangeTrackers = [k \in TimeframeKeys |-> FreshTracker(now, cfg.initialPrice)]
    /\ lastTradeTime = 0
    /\ volatilityMultiplier = One
    /\ marketData = <<>>
    /\ tradeResult = <<>>
    /\ feConfig = fcfg
    /\ feCurrentPrice = fcfg.initialPrice
    /\ feLastUpdateTime = now
    /\ feCandles = FeUpdateCandle(<<>>, now, fcfg.initialPrice, fvol)
    /\ feTrades = <<>>
    /\ patternStartTime = 0
    /\ patternProgress = 0
    /\ patternBasePrice = fcfg.initialPrice
    /\ feMarketData = <<>>
    /\ feTick = <<>>
    /\ attempts = <<>>
    /\ executed = <<>>
    /\ feAdded = <<>>
    /\ closed = [k \in Intervals |-> <<>>]
    /\ feOpened = <<IntervalStart(now, FeInterval)>>
    /\ ingested = <<>>
    /\ steps = 0
    /\ produced = <<>>
    /\ updates = <<>>
    /\ amplitudeSettings = [k \in ThresholdKeys |-> cfg[k]]
    /\ configReply = <<>>
    /\ settings = DefaultSettings
    /\ marketDataGenerator = <<>>
    /\ genData = <<>>

(***************************************************************************)
(* Bounds and inputs                                                       *)
(***************************************************************************)
StartTime == 5000            \* Date.now() at construction
MaxAttempts == 3             \* executeTrade calls in a run of SpecTrade
MaxSteps == 3                \* clock advances in a run
MaxIngests == 3              \* updateCandles calls in a run of SpecIngest
LogWarmUp == 49              \* trades recorded at a steady pace before the inputs become free
LogSteps == 51               \* clock advances in a run of SpecTradeLog
LogAttempts == 52            \* executeTrade calls in a run of SpecTradeLog
CapSteps == 503              \* clock advances in a run of SpecCandleCap
CapSlack == 1                \* how near a capacity the inputs become free
CfgSteps == 3                \* clock advances in a run of SpecConfig
MaxUpdates == 2              \* configuration updates in a run of SpecConfig
PatSteps == 5                \* clock advances in a run of SpecPattern
PatUpdates == 1              \* configuration updates in a run of SpecPattern

TradeDeltas == {100, 500}
TradeInputs == {<<"buy", 1>>, <<"sell", 1>>, <<"sell", 0 - 2>>, <<"buy", 20>>,
                <<"sell", 0 - 20>>}
TradeConfigs == {[DefaultConfig EXCEPT !.maxTradesPerSecond = m] : m \in {2, 10}}

(***************************************************************************)
(* SpecTrade: executeTrade calls of any side and size, at any pace          *)
(***************************************************************************)
InitTrade == \E cfg \in TradeConfigs : Construct(cfg, FeDefaultConfig, StartTime, 0)

TradeElapse ==
    \E d \in TradeDeltas : steps < MaxSteps /\ Elapse(d)

TradeCall ==
    \E in \in TradeInputs : Len(attempts) < MaxAttempts /\ ExecuteTrade(in[1], in[2])

NextTrade == TradeElapse \/ TradeCall

SpecTrade == InitTrade /\ [][NextTrade]_vars

\* ---- C1
Within(a, b) == (b.time - a.time) * config.maxTradesPerSecond < MsPerSecond

\* C1: after a successful executeTrade at t, every call at t' with
\* t' - t < 1000/maxTradesPerSecond is rejected as rate-limited whatever its
\* side and size, and any two trades of the log are at least
\* 1000/maxTradesPerSecond ms apart.
C1_Throttle ==
    /\ \A i, j \in 1..Len(attempts) :
          (i < j /\ attempts[i].success /\ Within(attempts[i], attempts[j]))
          => (~attempts[j].success /\ attempts[j].message = RateLimitMsg)
    /\ \A i, j \in 1..Len(trades) :
          i < j => (trades[j].timestamp - trades[i].timestamp)
                     * config.maxTradesPerSecond >= MsPerSecond

C1_Witness ==
    /\ Len(trades) >= 2
    /\ \E i, j \in 1..Len(attempts) :
          /\ i < j /\ attempts[i].success /\ Within(attempts[i], attempts[j])
          /\ attempts[j].time > attempts[i].time
          /\ Abs(attempts[j].size) > config.maxTradeSize
          /\ attempts[j].message = RateLimitMsg

\* ---- C2
SuccessIndexes == {i \in 1..Len(attempts) : attempts[i].success}
LastSuccessTime ==
    IF SuccessIndexes = {} THEN 0
    ELSE attempts[CHOOSE i \in SuccessIndexes : \A j \in SuccessIndexes : j <= i].time

IsScenario ==
    /\ config.maxTradesPerSecond = 2
    /\ Len(attempts) >= 3
    /\ \A i \in 1..3 : attempts[i].side = "buy" /\ attempts[i].size = 1
    /\ attempts[2].time = attempts[1].time + 100
    /\ attempts[3].time = attempts[1].time + 600

\* C2: the throttle is measured from the last successful trade only (a rejected
\* call leaves lastTradeTime alone), and with maxTradesPerSecond = 2 three
\* buys of 0.1 at t, t+100, t+600 on a fresh engine succeed, are rate-limited
\* and succeed.
C2_LastSuccessOnly ==
    /\ lastTradeTime = LastSuccessTime
    /\ IsScenario => /\ attempts[1].success
                     /\ ~attempts[2].success /\ attempts[2].message = RateLimitMsg
                     /\ attempts[3].success

C2_Witness == IsScenario /\ Len(trades) = 2 /\ lastTradeTime = attempts[3].time

\* ---- C3
IsCall == Len(attempts') = Len(attempts) + 1
Call == attempts'[Len(attempts')]
Oversized == IsCall /\ Abs(Call.size) > config.maxTradeSize

\* C3 as stated: a call with |size| > maxTradeSize always returns the
\* size-exceeded rejection and leaves price, trade log and lastTradeTime alone.
C3_AlwaysSizeExceeded ==
    [][Oversized => /\ Call.message = SizeMsg
                    /\ UNCHANGED <<currentPrice, trades, lastTradeTime>>]_vars

\* C3 amended: a call with |size| > maxTradeSize is always rejected, as
\* rate-limited when it falls inside the minimum inter-trade interval and as
\* size-exceeded otherwise, and leaves price, trade log and lastTradeTime alone.
C3_OversizedRejected ==
    [][Oversized =>
         /\ ~Call.success
         /\ Call.message =
              IF (Call.time - lastTradeTime) * config.maxTradesPerSecond < MsPerSecond
              THEN RateLimitMsg ELSE SizeMsg
         /\ UNCHANGED <<currentPrice, trades, lastTradeTime>>]_vars

C3_Witness ==
    /\ \E i \in 1..Len(attempts) :
          /\ Abs(attempts[i].size) > config.maxTradeSize
          /\ attempts[i].size < 0
          /\ attempts[i].message = SizeMsg
    /\ \E i \in 1..Len(attempts) :
          /\ Abs(attempts[i].size) > config.maxTradeSize
          /\ attempts[i].message = RateLimitMsg

\* ---- C19
InsideInterval ==
    (Call.time - lastTradeTime) * config.maxTradesPerSecond < MsPerSecond

Succeeded == IsCall /\ Call.success
Recorded == trades'[Len(trades')]

Factors == {<<1001, 1000>>, <<11, 10>>, <<9, 10>>, <<1, 100000>>, <<0, 1>>}
TickDeltas == {10, 1000, 5000, 10000}
TickVolumes == {3}

TickConfigs ==
    {[DefaultConfig EXCEPT !.initialPrice = 1000, !.orderBookLevels = 3],
     [DefaultConfig EXCEPT !.initialPrice = 1000, !.orderBookLevels = 2,
                           !.spread = 0,
                           !.priceChangeThreshold15s = Undefined,
                           !.priceChangeThreshold1m = 0,
                           !.priceChangeThreshold15m = Undefined,
                           !.priceChangeThreshold1h = 0],
     [DefaultConfig EXCEPT !.initialPrice = 1000, !.orderBookLevels = 1,
                           !.spread = 4000,
                           !.priceChangeThreshold15s = 0,
                           !.priceChangeThreshold15m = 0,
                           !.priceChangeThreshold1h = Undefined]}

\* the client simulator is built from the same settings
FeConfigOf(cfg) ==
    [FeDefaultConfig EXCEPT !.initialPrice = cfg.initialPrice,
                            !.volatility = cfg.volatility,
                            !.spread = cfg.spread,
                            !.orderBookLevels = cfg.orderBookLevels]

\* The two simulators run in different processes and share no state: a run
\* exercises one of them.
BackendIdle == timers = {} /\ marketData = <<>> /\ attempts = <<>> /\ ingested = <<>>
FrontendIdle == feMarketData = <<>> /\ feAdded = <<>>

InitTick ==
    \E cfg \in TickConfigs, v \in TickVolumes :
        Construct(cfg, FeConfigOf(cfg), StartTime, v)

TickElapse == \E d \in TickDeltas : steps < MaxSteps /\ Elapse(d)

TickStart == FrontendIdle /\ intervalId = 0 /\ Start

\* the timer fires at most once per millisecond
TickTimer ==
    \E f \in Factors, v \in TickVolumes :
        clock > lastUpdateTime /\ TimerTick(f, v)

TickFrontend ==
    \E f \in Factors, v \in TickVolumes :
        BackendIdle /\ clock > feLastUpdateTime /\ FeGenerateMarketData(f, v, 1)

NextTick == TickElapse \/ TickStart \/ TickTimer \/ TickFrontend

SpecTick == InitTick /\ [][NextTick]_vars

\* ---- C4
\* C4: after every tick of either simulator the current price is strictly
\* positive and not below the floor 0.00001.
C4_PriceFloor ==
    /\ currentPrice > 0 /\ currentPrice >= PriceEpsilon
    /\ feCurrentPrice > 0 /\ feCurrentPrice >= PriceEpsilon

\* ---- C5
Ohlc(c) == c.low <= c.open /\ c.open <= c.high /\ c.low <= c.close /\ c.close <= c.high
AllOhlc(cs) == \A i \in 1..Len(cs) : Ohlc(cs[i])

\* C5: every candle of every bucket size, current or closed, has
\* low <= open <= high and low <= close <= high.
C5_CandleRange ==
    /\ \A k \in Intervals : AllOhlc(candlesByInterval[k]) /\ AllOhlc(currentCandles[k])
    /\ AllOhlc(candles.items)
    /\ AllOhlc(feCandles)

C5_Witness ==
    \E k, j \in Intervals :
        /\ candlesByInterval[j] # <<>>
        /\ currentCandles[k] # <<>>
        /\ currentCandles[k][1].low < currentCandles[k][1].open
        /\ currentCandles[k][1].open < currentCandles[k][1].high
        /\ currentCandles[k][1].close < currentCandles[k][1].high

\* ---- C9
Decreasing(ps) == \A i \in 1..(Len(ps) - 1) : ps[i] > ps[i + 1]
Increasing(ps) == \A i \in 1..(Len(ps) - 1) : ps[i] < ps[i + 1]
Monotonic(book) == Decreasing(book.bids) /\ Increasing(book.asks)
Sized(book, n) == Len(book.bids) = n /\ Len(book.asks) = n

EnabledWindows == {k \in TimeframeKeys : config[ConfigKey[k]] \notin {0, Undefined}}
LateAt(k, t) ==
    10 * Min(t - priceChangeTrackers[k].startTime, TimeframeMs[k]) > 6 * TimeframeMs[k]
LaggingAt(k) ==
    (priceChangeTrackers[k].maxPrice - priceChangeTrackers[k].minPrice) * 1000
        < config[ConfigKey[k]] * priceChangeTrackers[k].startPrice

\* C10: a window whose threshold is 0 or absent never raises the volatility
\* multiplier: the multiplier exceeds 1 only through a window with a threshold,
\* and with all four thresholds 0 or absent it is exactly 1 on every tick.
C10_ZeroThresholdDisabled ==
    /\ EnabledWindows = {} => volatilityMultiplier = One
    /\ volatilityMultiplier > One =>
          \E k \in EnabledWindows : LateAt(k, lastUpdateTime) /\ LaggingAt(k)
    /\ volatilityMultiplier >= One

C10_Witness ==
    /\ EnabledWindows = {}
    /\ marketData # <<>>
    /\ volatilityMultiplier = One
    /\ \E k \in TimeframeKeys :
          /\ config[ConfigKey[k]] = Undefined
          /\ LateAt(k, lastUpdateTime)
          /\ priceChangeTrackers[k].maxPrice = priceChangeTrackers[k].minPrice

\* ---- C11
Triggering(k) ==
    k \in EnabledWindows /\ LateAt(k, lastUpdateTime) /\ LaggingAt(k)
\* 1 + ((threshold - amplitude)/threshold) * (elapsedFraction - 0.6) * 5 of
\* window k at the last tick, each factor truncated to 0.001
BoostAt(k) ==
    LET tr == priceChangeTrackers[k]
        th == config[ConfigKey[k]]
        elapsed == Min(lastUpdateTime - tr.startTime, TimeframeMs[k])
    IN 1000000
       + (((th * tr.startPrice - (tr.maxPrice - tr.minPrice) * 1000) * 1000)
             \div (th * tr.startPrice))
         * ((5 * elapsed - 3 * TimeframeMs[k]) \div (TimeframeMs[k] \div 1000))

\* C11: on every tick the volatility multiplier is at least 1 and at most 3;
\* it is exactly 1 when no window is both past 60% of its length and below its
\* threshold, and otherwise the maximum of the boosts of the windows that are.
C11_MultiplierRange ==
    /\ volatilityMultiplier >= 1000000
    /\ volatilityMultiplier <= 3000000
    /\ (\A k \in TimeframeKeys : ~Triggering(k)) => volatilityMultiplier = 1000000
    /\ (\E k \in TimeframeKeys : Triggering(k)) =>
          /\ \E k \in TimeframeKeys : Triggering(k) /\ volatilityMultiplier = BoostAt(k)
          /\ \A k \in TimeframeKeys : Triggering(k) => BoostAt(k) <= volatilityMultiplier

C11_Witness ==
    /\ Len(produced) >= 2
    /\ volatilityMultiplier > 1000000
    /\ volatilityMultiplier < 2000000
    /\ Triggering("15s")
    /\ priceChangeTrackers["15s"].maxPrice > priceChangeTrackers["15s"].minPrice
    /\ ~Triggering("1m")

\* ---- C13
IsTick == Len(produced') = Len(produced) + 1

\* C13: a tick at time now reinitialises a window's tracker (startTime = now,
\* startPrice = minPrice = maxPrice = the current price) exactly when
\* now - startTime >= windowMs, and otherwise leaves its startTime and
\* startPrice alone; so after every tick now - startTime < windowMs.
C13_TrackerReset ==
    [][IsTick =>
         \A k \in TimeframeKeys :
            /\ (clock - priceChangeTrackers[k].startTime >= TimeframeMs[k]) =>
                  priceChangeTrackers'[k] =
                     [startTime |-> clock, startPrice |-> currentPrice,
                      minPrice |-> currentPrice, maxPrice |-> currentPrice]
            /\ (clock - priceChangeTrackers[k].startTime < TimeframeMs[k]) =>
                  /\ priceChangeTrackers'[k].startTime = priceChangeTrackers[k].startTime
                  /\ priceChangeTrackers'[k].startPrice = priceChangeTrackers[k].startPrice
            /\ lastUpdateTime' - priceChangeTrackers'[k].startTime < TimeframeMs[k]]_vars

\* a window restarted at the very millisecond it ended, another still running
C13_Witness ==
    /\ priceChangeTrackers["15s"].startTime = StartTime + 15000
    /\ lastUpdateTime = StartTime + 15000
    /\ priceChangeTrackers["15s"].startPrice # config.initialPrice
    /\ priceChangeTrackers["1m"].startTime = StartTime
    /\ priceChangeTrackers["1m"].maxPrice > priceChangeTrackers["1m"].minPrice

\* ---- C14
Covers(k, p) ==
    priceChangeTrackers[k].minPrice <= p /\ p <= priceChangeTrackers[k].maxPrice
Since(k) ==
    {i \in 1..Len(produced) : produced[i].time >= priceChangeTrackers[k].startTime}

\* C14 as stated: after a tick every tracker has minPrice <= p <= maxPrice for
\* every price p produced since its startTime, the price of the tick just
\* completed included.
C14_AllProduced ==
    \A k \in TimeframeKeys :
        /\ Covers(k, priceChangeTrackers[k].startPrice)
        /\ \A i \in Since(k) : Covers(k, produced[i].price)

\* C14 amended: after a tick every tracker has minPrice <= p <= maxPrice for its
\* startPrice and for every price p produced since its startTime except the
\* price of the tick just completed, which it takes in on the next tick.
C14_ProducedBefore ==
    \A k \in TimeframeKeys :
        /\ Covers(k, priceChangeTrackers[k].startPrice)
        /\ \A i \in Since(k) : i < Len(produced) => Covers(k, produced[i].price)

C14_Witness ==
    /\ Len(produced) >= 3
    /\ \E k \in TimeframeKeys :
          /\ priceChangeTrackers[k].startTime > StartTime
          /\ \E i \in Since(k) :
                /\ i < Len(produced)
                /\ produced[i].price > priceChangeTrackers[k].startPrice
                /\ produced[i].price = priceChangeTrackers[k].maxPrice
          /\ ~Covers(k, currentPrice)

\* ---- C25
\* a candle and its later self while it is the current one
Grows(c, d) ==
    /\ d.timestamp = c.timestamp /\ d.open = c.open
    /\ d.high >= c.high /\ d.low <= c.low /\ d.volume >= c.volume
\* a series after a step: as it was, or with the candle just closed at its
\* end (and its oldest candle gone beyond the capacity)
Closes(series, cur, after, cap) ==
    /\ cur # <<>>
    /\ after = SliceLast(Append(series, cur[1]), cap)
BackendCandlesKept(k) ==
    /\ Len(currentCandles'[k]) <= 1
    /\ \/ /\ candlesByInterval'[k] = candlesByInterval[k]
          /\ currentCandles[k] # <<>> =>
                (currentCandles'[k] # <<>>
                   /\ Grows(currentCandles[k][1], currentCandles'[k][1]))
       \/ /\ Closes(candlesByInterval[k], currentCandles[k],
                    candlesByInterval'[k], 200)
          /\ currentCandles'[k] # <<>>
          /\ currentCandles'[k][1].timestamp > currentCandles[k][1].timestamp
FrontendCandlesKept ==
    LET n == Len(feCandles)
    IN \/ /\ Len(feCandles') = n
          /\ \A i \in 1..(n - 1) : feCandles'[i] = feCandles[i]
          /\ Grows(feCandles[n], feCandles'[n])
       \/ /\ feCandles' = SliceLast(Append(feCandles, feCandles'[Len(feCandles')]), 500)
          /\ feCandles'[Len(feCandles')].timestamp > feCandles[n].timestamp

\* C25: a closed candle never changes again; while a candle is the current one
\* its timestamp and open stay, its high does not decrease, its low does not
\* increase and its volume does not decrease; each bucket size has at most one
\* current candle.
C25_CandlesSettle ==
    [][/\ \A k \in Intervals : BackendCandlesKept(k)
       /\ FrontendCandlesKept]_vars

C25_Witness ==
    \/ /\ Len(candlesByInterval[10]) = 2
       /\ candlesByInterval[10][1].timestamp < candlesByInterval[10][2].timestamp
       /\ currentCandles[1000] # <<>>
       /\ currentCandles[1000][1].volume > 6
       /\ currentCandles[1000][1].open < currentCandles[1000][1].high
       /\ currentCandles[1000][1].close < currentCandles[1000][1].open
    \/ /\ Len(feCandles) = 2
       /\ feCandles[1].close # feCandles[2].open
       /\ feCandles[2].volume > 3
       /\ feCandles[2].low < feCandles[2].open

\* ---- C30
\* level i of each side at bid - i*spread*0.2 and ask + i*spread*0.2, i from 0;
\* unit is the number of book price units in a snapshot price unit
LevelsFromSpread(data, spread, unit) ==
    /\ \A i \in 1..Len(data.orderBook.bids) :
          data.orderBook.bids[i] = (data.bid - (i - 1) * (spread \div 5)) * unit
    /\ \A i \in 1..Len(data.orderBook.asks) :
          data.orderBook.asks[i] = (data.ask + (i - 1) * (spread \div 5)) * unit
\* level 0 is the snapshot's bid and ask, and the book's gap is the spread
BestIsQuote(data, price, spread, unit) ==
    /\ data.price = price
    /\ data.bid = price - spread \div 2
    /\ data.ask = price + spread \div 2
    /\ Len(data.orderBook.bids) > 0 =>
          /\ data.orderBook.bids[1] = data.bid * unit
          /\ data.orderBook.asks[1] = data.ask * unit
          /\ data.orderBook.asks[1] - data.orderBook.bids[1] = spread * unit

\* C30: in every snapshot bid level i has price bid - i*spread*0.2 and ask
\* level i has price ask + i*spread*0.2, so level 0 of each side is the
\* snapshot's bid and ask and the best ask is the spread above the best bid.
C30_BookFromQuote ==
    /\ marketData # <<>> =>
          /\ LevelsFromSpread(marketData[1], config.spread, 1)
          /\ BestIsQuote(marketData[1], currentPrice, config.spread, 1)
    /\ feMarketData # <<>> =>
          /\ LevelsFromSpread(feMarketData[1], feConfig.spread, 10000)
          /\ BestIsQuote(feMarketData[1], feCurrentPrice, feConfig.spread, 10000)

\* the same for the snapshots of the backend
C30_BackendBook ==
    marketData # <<>> =>
        /\ LevelsFromSpread(marketData[1], config.spread, 1)
        /\ BestIsQuote(marketData[1], currentPrice, config.spread, 1)

\* ---- C22
Expiring(k) == clock - priceChangeTrackers[k].startTime >= TimeframeMs[k]
\* threshold * startPrice - amplitude * startPrice of the window that ends at
\* this tick, the current price taken in
ExpiringShortfall(k) ==
    LET tr == priceChangeTrackers[k]
    IN config[ConfigKey[k]] * tr.startPrice
       - (Max(tr.maxPrice, currentPrice) - Min(tr.minPrice, currentPrice)) * 1000

\* C22: on the tick at which a window expires its candidate is computed from
\* the expiring tracker, with the elapsed fraction 1, before the tracker is
\* reset: an expiring window whose amplitude is below its threshold boosts
\* that tick by 1 + 2 * (threshold - amplitude)/threshold, and is then reset.
C22_ExpiringBoosts ==
    [][IsTick =>
         \A k \in EnabledWindows :
            (Expiring(k) /\ ExpiringShortfall(k) > 0) =>
               /\ volatilityMultiplier' > 1000000
               /\ volatilityMultiplier' >=
                     1000000 + ((ExpiringShortfall(k) * 1000)
                                  \div (config[ConfigKey[k]]
                                          * priceChangeTrackers[k].startPrice)) * 2000
               /\ priceChangeTrackers'[k].startTime = clock]_vars

\* what the tick does instead: the window that expires does not take part
C22_ExpiringSilent ==
    [][(IsTick /\ \A k \in EnabledWindows : Expiring(k) \/ ~LateAt(k, clock)) =>
          volatilityMultiplier' = 1000000]_vars

(***************************************************************************)
(* SpecIngest: a fresh aggregator fed snapshots with any timestamps         *)
(***************************************************************************)
IngestTimes == {0, 400, 999, 1000, 1400, 5400}
IngestPrices == {1000000, 1200000, 900000}

InitIngest == Construct(DefaultConfig, FeDefaultConfig, StartTime, 0)

IngestCall ==
    \E ts \in IngestTimes, p \in IngestPrices, v \in TickVolumes :
        Len(ingested) < MaxIngests /\ Ingest(ts, p, v)

NextIngest == IngestCall

SpecIngest == InitIngest /\ [][NextIngest]_vars

\* ---- C6
IngestedPrices == {ingested[i][2] : i \in 1..Len(ingested)}
SameBucket(k) ==
    /\ ingested # <<>>
    /\ \A i \in 1..Len(ingested) : ingested[i][1] \div k = ingested[1][1] \div k
OneCandle(k) ==
    /\ candlesByInterval[k] = <<>>
    /\ currentCandles[k] # <<>>
    /\ currentCandles[k][1].timestamp = (ingested[1][1] \div k) * k
    /\ currentCandles[k][1].open = ingested[1][2]
    /\ currentCandles[k][1].close = ingested[Len(ingested)][2]
    /\ \A p \in IngestedPrices : currentCandles[k][1].low <= p /\ p <= currentCandles[k][1].high
    /\ currentCandles[k][1].low \in IngestedPrices
    /\ currentCandles[k][1].high \in IngestedPrices

\* C6: from a fresh aggregator, ingests whose timestamps all fall in one bucket
\* yield exactly one candle for it, with open the first price, high the
\* maximum, low the minimum and close the last price, the bucket starting at 0
\* included.
C6_OneCandlePerBucket == \A k \in Intervals : SameBucket(k) => OneCandle(k)

\* the same for the buckets that do not start at 0
C6_LaterBuckets ==
    \A k \in Intervals : (SameBucket(k) /\ ingested[1][1] >= k) => OneCandle(k)

C6_LaterWitness ==
    /\ Len(ingested) = 3
    /\ SameBucket(1000) /\ ingested[1][1] >= 1000
    /\ currentCandles[1000][1].low < currentCandles[1000][1].close
    /\ currentCandles[1000][1].open < currentCandles[1000][1].high

\* ---- C26
\* the candle starts a bucket of size k and was opened by an ingest in it
OpenedByIngest(c, k) ==
    /\ c.timestamp % k = 0
    /\ \E i \in 1..Len(ingested) :
          /\ c.timestamp <= ingested[i][1]
          /\ ingested[i][1] < c.timestamp + k
          /\ c.open = ingested[i][2]

\* C26: for each bucket size, whatever the order of the ingested timestamps,
\* the timestamps of the stored series are strictly increasing, the current
\* candle's timestamp is greater than every stored one, and every candle
\* timestamp is a multiple of the bucket size not greater than the time of
\* the ingest that opened it.
C26_TimestampsIncrease ==
    \A k \in Intervals :
        /\ \A i \in 1..(Len(candlesByInterval[k]) - 1) :
              candlesByInterval[k][i].timestamp < candlesByInterval[k][i + 1].timestamp
        /\ \A i \in 1..Len(candlesByInterval[k]) :
              /\ OpenedByIngest(candlesByInterval[k][i], k)
              /\ currentCandles[k] # <<>>
              /\ candlesByInterval[k][i].timestamp < currentCandles[k][1].timestamp
        /\ \A i \in 1..Len(currentCandles[k]) : OpenedByIngest(currentCandles[k][i], k)

\* an ingest older than the current candle, after a candle was closed
C26_Witness ==
    /\ Len(ingested) = 3
    /\ ingested[3][1] < ingested[2][1]
    /\ currentCandles[1000] # <<>>
    /\ ingested[3][1] < currentCandles[1000][1].timestamp
    /\ Len(candlesByInterval[1000]) = 1
    /\ currentCandles[1000][1].close = ingested[3][2]
    /\ currentCandles[1000][1].close # currentCandles[1000][1].open

(***************************************************************************)
(* SpecCandleCap: both simulators tick once a second until their candle     *)
(* series overflow; the price moves freely near the capacities              *)
(***************************************************************************)
CapDeltas == {1000}
CapFactors == {<<1, 1>>, <<11, 10>>}
CapConfig == [DefaultConfig EXCEPT !.initialPrice = 1000, !.orderBookLevels = 1]

Near(n, cap) == n >= cap - CapSlack /\ n <= cap + CapSlack
CapBackendFactors ==
    IF Near(Len(closed[1000]), MaxCandles) THEN CapFactors ELSE {<<1, 1>>}
CapFrontendFactors ==
    IF Near(Len(feOpened), FeMaxCandles) THEN CapFactors ELSE {<<1, 1>>}

InitCap ==
    \E v \in TickVolumes : Construct(CapConfig, FeConfigOf(CapConfig), StartTime, v)

CapStart == intervalId = 0 /\ Start

\* the next second starts once both simulators have ticked in this one
CapElapse ==
    /\ steps < CapSteps
    /\ timers # {}
    /\ lastUpdateTime = clock
    /\ feLastUpdateTime = clock
    /\ \E d \in CapDeltas : Elapse(d)

CapTimer ==
    \E f \in CapBackendFactors, v \in TickVolumes :
        clock > lastUpdateTime /\ TimerTick(f, v)

CapFrontend ==
    \E f \in CapFrontendFactors, v \in TickVolumes :
        clock > feLastUpdateTime /\ FeGenerateMarketData(f, v, 1)

NextCap == CapStart \/ CapElapse \/ CapTimer \/ CapFrontend

SpecCandleCap == InitCap /\ [][NextCap]_vars

\* ---- C7
\* series holds the last Len(series) elements of all, in order
IsTail(series, all) ==
    /\ Len(series) <= Len(all)
    /\ \A i \in 1..Len(series) : series[i] = all[Len(all) - Len(series) + i]
FeTimestamps == [i \in 1..Len(feCandles) |-> feCandles[i].timestamp]

LogDeltas == {100}
LogInputs == {<<"buy", 1>>, <<"sell", 1>>, <<"buy", 20>>}
LogSides == {"buy", "sell"}

InitLog == Construct(DefaultConfig, FeDefaultConfig, StartTime, 0)

LastAddTime == IF feAdded = <<>> THEN 0 ELSE feAdded[Len(feAdded)].timestamp
WarmingUp == Len(executed) < LogWarmUp \/ Len(feAdded) < LogWarmUp

\* while warming up the next interval starts once both logs got their trade
LogElapse ==
    /\ steps < LogSteps
    /\ WarmingUp => (lastTradeTime = clock /\ LastAddTime = clock)
    /\ \E d \in LogDeltas : Elapse(d)

LogCall ==
    \E in \in (IF WarmingUp THEN {<<"buy", 1>>} ELSE LogInputs) :
        /\ Len(attempts) < LogAttempts
        /\ WarmingUp => lastTradeTime < clock
        /\ ExecuteTrade(in[1], in[2])

\* the application adds a trade at the ask or the bid of the client simulator
LogFrontend ==
    \E side \in (IF WarmingUp THEN {"buy"} ELSE LogSides) :
        /\ LastAddTime < clock
        /\ FeAddTrade(side, 1, FillPrice(side, feCurrentPrice, feConfig.spread))

NextLog == LogElapse \/ LogCall \/ LogFrontend

SpecTradeLog == InitLog /\ [][NextLog]_vars

\* ---- C8
IsSuccess(a) == a.success
\* the i-th recorded trade is the i-th successful call
FromSuccesses ==
    LET ok == SelectSeq(attempts, IsSuccess)
    IN /\ Len(executed) = Len(ok)
       /\ \A i \in 1..Len(ok) :
             /\ executed[i].timestamp = ok[i].time
             /\ executed[i].side = ok[i].side
             /\ executed[i].size = ok[i].size

\* C8: the trade log never holds more than 50 trades, only successful trades
\* are appended, and on overflow the oldest trade is dropped.
C8_TradeLogBounded ==
    /\ Len(trades) = Min(Len(executed), 50)
    /\ IsTail(trades, executed)
    /\ FromSuccesses
    /\ Len(feTrades) = Min(Len(feAdded), 50)
    /\ \A i \in 1..Len(feTrades) : feTrades[i] = feAdded[Len(feAdded) - i + 1]

C8_Witness ==
    /\ Len(executed) > 50
    /\ Len(trades) = 50
    /\ trades[1] = executed[Len(executed) - 49]
    /\ \E i \in 1..Len(attempts) : i > 50 /\ ~attempts[i].success
    /\ Len(feAdded) > 50
    /\ Len(feTrades) = 50

(***************************************************************************)
(* SpecConfig: one of the three engines runs while its configuration is     *)
(* updated: the backend (timer ticks, market-data requests, the three       *)
(* configuration handlers), the client simulator, or the serverless         *)
(* socket API                                                               *)
(***************************************************************************)
CfgDeltas == {10, 1000}
CfgFactors == {<<11, 10>>, <<9, 10>>}
CfgConfig == [DefaultConfig EXCEPT !.initialPrice = 1000, !.orderBookLevels = 1]

\* bodies of the socket handler: another bucket size, a bucket size that is
\* not maintained, no trades per second, another threshold
ConfigBodies ==
    {[candleInterval |-> 10], [candleInterval |-> 7], [maxTradesPerSecond |-> 0],
     [priceChangeThreshold1m |-> 8]}
\* bodies of the two POST handlers
PostBodies == {[candleInterval |-> 100, priceChangeThreshold1h |-> 9],
               [candleInterval |-> 7]}
AmplitudeBodies == {[priceChangeThreshold15s |-> 4], [volatility |-> 2]}
\* bodies of the client simulator: another pattern, the pattern cleared, no
\* pattern field, the same pattern again with another field
FeConfigBodies ==
    {[patternType |-> "uptrend"], [patternType |-> ""], [volatility |-> 2],
     [patternType |-> "random_walk", spread |-> 300]}
SettingsBodies == {[volatility |-> 5], [interval |-> 100]}

Touched(engine) == \E i \in 1..Len(updates) : updates[i].engine = engine
BackendQuiet == BackendIdle /\ produced = <<>> /\ ~Touched("backend")
FrontendQuiet == FrontendIdle /\ ~Touched("frontend")
GeneratorQuiet == marketDataGenerator = <<>>

InitConfig ==
    \E v \in TickVolumes : Construct(CfgConfig, FeConfigOf(CfgConfig), StartTime, v)

CfgElapse == \E d \in CfgDeltas : steps < CfgSteps /\ Elapse(d)

CfgStart == FrontendQuiet /\ GeneratorQuiet /\ intervalId = 0 /\ Start

CfgTimer ==
    \E f \in CfgFactors, v \in TickVolumes :
        clock > lastUpdateTime /\ TimerTick(f, v)

CfgGet ==
    \E f \in {<<11, 10>>} :
        FrontendQuiet /\ GeneratorQuiet /\ clock > lastUpdateTime /\ GetMarketData(f)

CfgSocketUpdate ==
    \E body \in ConfigBodies :
        /\ FrontendQuiet /\ GeneratorQuiet
        /\ Len(updates) < MaxUpdates
        /\ OnUpdateConfig(body)

CfgPostConfig ==
    \E body \in PostBodies :
        /\ FrontendQuiet /\ GeneratorQuiet
        /\ Len(updates) < MaxUpdates
        /\ PostConfig(body)

CfgPostAmplitude ==
    \E body \in AmplitudeBodies :
        /\ FrontendQuiet /\ GeneratorQuiet
        /\ Len(updates) < MaxUpdates
        /\ PostAmplitudeSettings(body)

CfgFrontend ==
    \E f \in CfgFactors, v \in TickVolumes :
        /\ BackendQuiet /\ GeneratorQuiet
        /\ clock > feLastUpdateTime
        /\ FeGenerateMarketData(f, v, 1)

CfgFrontendUpdate ==
    \E body \in FeConfigBodies :
        /\ BackendQuiet /\ GeneratorQuiet
        /\ Len(updates) < MaxUpdates
        /\ FeUpdateConfig(body)

CfgConnect == BackendQuiet /\ FrontendQuiet /\ Connect

CfgGenerator ==
    \E f \in CfgFactors, v \in TickVolumes :
        marketDataGenerator # <<>>
        /\ clock > marketDataGenerator[1].lastUpdateTime
        /\ GenerateNextCandle(f, v)

CfgUpdateSettings ==
    \E body \in SettingsBodies : Len(updates) < MaxUpdates /\ UpdateSettings(body)

NextConfig ==
    \/ CfgElapse \/ CfgStart \/ CfgTimer \/ CfgGet
    \/ CfgSocketUpdate \/ CfgPostConfig \/ CfgPostAmplitude
    \/ CfgFrontend \/ CfgFrontendUpdate
    \/ CfgConnect \/ CfgGenerator \/ CfgUpdateSettings

SpecConfig == InitConfig /\ [][NextConfig]_vars

IsUpdate == Len(updates') = Len(updates) + 1
LastUpdate == updates'[Len(updates')]

\* ---- C12
ChangesPattern ==
    /\ IsUpdate
    /\ LastUpdate.engine = "frontend"
    /\ "patternType" \in DOMAIN LastUpdate.body
    /\ LastUpdate.body["patternType"] # feConfig.patternType

\* C12: whenever updateConfig changes patternType, to any different value or
\* by clearing it, patternStartTime becomes the update time, progress 0 and
\* basePrice the current price.
C12_PatternReset ==
    [][ChangesPattern => /\ patternStartTime' = clock
                         /\ patternProgress' = 0
                         /\ patternBasePrice' = feCurrentPrice]_vars

\* the same for a change to a pattern, the pattern not being cleared
C12_ResetOnNewPattern ==
    [][(ChangesPattern /\ LastUpdate.body["patternType"] # "") =>
          /\ patternStartTime' = clock
          /\ patternProgress' = 0
          /\ patternBasePrice' = feCurrentPrice]_vars

\* ---- C15
Invalid(body) ==
    \/ "candleInterval" \in DOMAIN body /\ body["candleInterval"] \notin Intervals
    \/ "maxTradesPerSecond" \in DOMAIN body /\ body["maxTradesPerSecond"] <= 0

\* C15: a configuration update with an out-of-range field (a candleInterval
\* that is no maintained bucket size, maxTradesPerSecond <= 0) is rejected with
\* an InvalidConfig error and the configuration in force is retained.
C15_InvalidRejected ==
    [][(IsUpdate /\ LastUpdate.engine = "backend" /\ Invalid(LastUpdate.body)) =>
          /\ config' = config
          /\ configReply'[1].error = "InvalidConfig"]_vars

\* ---- C16
GeneratorKept ==
    /\ marketDataGenerator'[1].currentPrice = marketDataGenerator[1].currentPrice
    /\ marketDataGenerator'[1].lastUpdateTime = marketDataGenerator[1].lastUpdateTime
    /\ marketDataGenerator'[1].candles = marketDataGenerator[1].candles
    /\ marketDataGenerator'[1].currentCandle = marketDataGenerator[1].currentCandle

\* C16: on every path through which settings can be updated, an update leaves
\* the current price, lastUpdateTime, the trackers, all candle series, the
\* trade log and lastTradeTime as they were.
C16_UpdateFrame ==
    [][IsUpdate =>
         /\ UNCHANGED <<currentPrice, lastUpdateTime, priceChangeTrackers, candles,
                        candlesByInterval, currentCandles, lastCandleTimes,
                        trades, lastTradeTime>>
         /\ UNCHANGED <<feCurrentPrice, feLastUpdateTime, feCandles, feTrades>>
         /\ LastUpdate.engine = "generator" => GeneratorKept]_vars

\* the same for the updates of the backend and of the client simulator
C16_SimulatorFrame ==
    [][(IsUpdate /\ LastUpdate.engine # "generator") =>
         /\ UNCHANGED <<currentPrice, lastUpdateTime, priceChangeTrackers, candles,
                        candlesByInterval, currentCandles, lastCandleTimes,
                        trades, lastTradeTime>>
         /\ UNCHANGED <<feCurrentPrice, feLastUpdateTime, feCandles, feTrades>>]_vars

\* ---- C17
InRange(c, p) == c.low <= p /\ p <= c.high
\* the candles of bucket size k that start at ts, closed or current
CandlesAt(k, ts) ==
    {closed[k][i] : i \in {j \in 1..Len(closed[k]) : closed[k][j].timestamp = ts}}
    \cup {currentCandles[k][i] :
             i \in {j \in 1..Len(currentCandles[k]) :
                       currentCandles[k][j].timestamp = ts}}

\* C17: every call that advances the price, from the timer or from a
\* market-data request, ingests the new price into all four bucket sizes: after
\* it each bucket's current candle closes at the current price, and every
\* produced price lies in the range of the candle of its bucket.
C17_EveryPriceIngested ==
    produced # <<>> =>
        \A k \in Intervals :
            /\ currentCandles[k] # <<>>
            /\ currentCandles[k][1].close = currentPrice
            /\ \A i \in 1..Len(produced) :
                  \E c \in CandlesAt(k, IntervalStart(produced[i].time, k)) :
                     InRange(c, produced[i].price)

\* ---- C18
Selected == IF config.candleInterval \in Intervals THEN config.candleInterval ELSE 1000

\* C18: the candles of the snapshot returned by a tick are the most recent
\* candles, at most 150, of the series of the bucket size selected in the
\* configuration in force at that tick, also on the first tick after
\* updateConfig changed candleInterval.
C18_SelectedSeries ==
    [][(Len(produced') = Len(produced) + 1 /\ config.candleInterval \in Intervals) =>
          marketData'[1].candles = SliceLast(candlesByInterval[Selected], 150)]_vars

\* ---- C21
KeepsPattern ==
    /\ IsUpdate
    /\ LastUpdate.engine = "frontend"
    /\ Merge(feConfig, LastUpdate.body)["patternType"] = feConfig.patternType

\* C21: an updateConfig call that does not change patternType, because it
\* omits the field or passes the same patternType again with other fields,
\* leaves patternStartTime, progress and basePrice unchanged.
C21_OnlyChangeResets ==
    [][KeepsPattern =>
          UNCHANGED <<patternStartTime, patternProgress, patternBasePrice>>]_vars

\* the same for the calls that omit patternType
C21_OmittedKeeps ==
    [][(KeepsPattern /\ "patternType" \notin DOMAIN LastUpdate.body) =>
          UNCHANGED <<patternStartTime, patternProgress, patternBasePrice>>]_vars

\* ---- C29
\* C29: after any sequence of configuration operations on the backend the four
\* values of amplitudeSettings equal the four priceChangeThreshold fields of
\* the simulator's configuration.
C29_SettingsInSync ==
    \A k \in ThresholdKeys : amplitudeSettings[k] = config[k]

(***************************************************************************)
(* SpecPattern: the client simulator runs a pattern of any type and         *)
(* strength while time passes, it ticks and its configuration is updated    *)
(***************************************************************************)
PatDeltas == {50, 250}
PatFactors == {<<11, 10>>}
PatSamples == {10}
PatTypes == {"head_and_shoulders", "double_top", "double_bottom", "breakout_up"}
PatStrengths == {0, 3, 10}
PatBodies ==
    {[patternType |-> "head_and_shoulders"], [patternType |-> "double_top"],
     [patternType |-> "double_bottom"], [patternDuration |-> 2000]}

InitPattern ==
    \E type \in PatTypes, s \in PatStrengths, v \in TickVolumes :
        Construct(CfgConfig,
                  [FeConfigOf(CfgConfig) EXCEPT !.patternType = type,
                                                !.patternStrength = s,
                                                !.patternDuration = 1000],
                  StartTime, v)

PatElapse == \E d \in PatDeltas : steps < PatSteps /\ Elapse(d)

PatTick ==
    \E f \in PatFactors, v \in TickVolumes, n \in PatSamples :
        clock > feLastUpdateTime /\ FeGenerateMarketData(f, v, n)

PatUpdate ==
    \E body \in PatBodies : Len(updates) < PatUpdates /\ FeUpdateConfig(body)

NextPattern == PatElapse \/ PatTick \/ PatUpdate

SpecPattern == InitPattern /\ [][NextPattern]_vars

\* ---- C23
\* the updates seen by the last tick that changed patternType
Changes ==
    {i \in 1..feTick[1].updates :
        /\ updates[i].engine = "frontend"
        /\ "patternType" \in DOMAIN updates[i].body
        /\ updates[i].body["patternType"] # updates[i].prior}
\* the moment the pattern became active
Activation ==
    IF Changes = {} THEN StartTime
    ELSE updates[CHOOSE i \in Changes : \A j \in Changes : j <= i].time
Clamp(x, lo, hi) == Max(lo, Min(hi, x))

\* C23: pattern progress lies in [0,1] and equals
\* clamp((now - activation time) / patternDuration, 0, 1), the activation time
\* being the construction time for a pattern of the initial configuration and
\* otherwise the latest change of patternType.
C23_ProgressFromActivation ==
    (feTick # <<>> /\ feTick[1].config.patternType # "") =>
        /\ feTick[1].progress >= 0 /\ feTick[1].progress <= 10000
        /\ feTick[1].progress =
              Clamp(((feTick[1].time - Activation) * 10000)
                       \div PatternDuration(feTick[1].config), 0, 10000)

\* the progress is in [0,1] and counts from patternStartTime
C23_ProgressFromStartTime ==
    (feTick # <<>> /\ feTick[1].config.patternType # ""
       /\ feTick[1].updates = Len(updates)) =>
        /\ feTick[1].progress >= 0 /\ feTick[1].progress <= 10000
        /\ feLastUpdateTime = feTick[1].time
        /\ patternProgress = feTick[1].progress
        /\ feTick[1].progress =
              Clamp(((feTick[1].time - patternStartTime) * 10000)
                       \div PatternDuration(feTick[1].config), 0, 10000)

\* ---- C24
IsFeTick == feTick' # feTick
\* no update since the last tick changed patternType
TypeKept ==
    \A i \in (feTick[1].updates + 1)..Len(updates) :
        updates[i].engine = "frontend" =>
           Merge([patternType |-> updates[i].prior], updates[i].body)["patternType"]
              = updates[i].prior
SteadyEnd(type) == type \notin {"sideways", "volatile"}
Expired ==
    /\ feTick # <<>>
    /\ feTick[1].config.patternType # ""
    /\ feTick[1].progress = 10000

\* C24: once a pattern's duration has elapsed, every later tick finds progress
\* at 1 and applies the pattern's terminal drift, for as long as patternType
\* is not changed.
C24_TerminalPersists ==
    [][(IsFeTick /\ Expired /\ TypeKept) =>
          /\ feTick'[1].progress = 10000
          /\ feTick'[1].drift # <<>>
          /\ (SteadyEnd(feConfig.patternType)
                /\ feConfig.patternStrength = feTick[1].config.patternStrength)
                => feTick'[1].drift = feTick[1].drift]_vars

\* the same for as long as the configuration is not updated at all
C24_UntouchedPersists ==
    [][(IsFeTick /\ Expired /\ feTick[1].updates = Len(updates)) =>
          /\ feTick'[1].progress = 10000
          /\ feTick'[1].drift # <<>>
          /\ SteadyEnd(feConfig.patternType) => feTick'[1].drift = feTick[1].drift]_vars

\* ---- C27
\* the head_and_shoulders bands, in tenths of the unit
HeadAndShouldersBand(p) ==
    IF p < 2500 THEN 10
    ELSE IF p < 3000 THEN 0 - 10
    ELSE IF p < 5000 THEN 15
    ELSE IF p < 5500 THEN 0 - 15
    ELSE IF p < 7500 THEN 10
    ELSE 0 - 20
BandsWithUnit(u) ==
    (feTick # <<>> /\ feTick[1].config.patternType # "") =>
        /\ feTick[1].config.patternType = "head_and_shoulders" =>
              feTick[1].drift =
                 <<[value |-> HeadAndShouldersBand(feTick[1].progress) * u,
                    scale |-> 4]>>
        /\ DoubleBottom(feTick[1].progress, u).value
              = 0 - DoubleTop(feTick[1].progress, u).value
        /\ DoubleBottom(feTick[1].progress, u).scale
              = DoubleTop(feTick[1].progress, u).scale
        /\ feTick[1].config.patternType = "double_top" =>
              feTick[1].drift = <<DoubleTop(feTick[1].progress, u)>>
        /\ feTick[1].config.patternType = "double_bottom" =>
              /\ feTick[1].drift = <<DoubleBottom(feTick[1].progress, u)>>
              /\ feTick[1].drift[1].value
                    = 0 - DoubleTop(feTick[1].progress, u).value

LifeDeltas == {10, 1000}

InitLifecycle ==
    \E v \in TickVolumes : Construct(CfgConfig, FeConfigOf(CfgConfig), StartTime, v)

LifeElapse == \E d \in LifeDeltas : steps < MaxSteps /\ Elapse(d)

LifeStart == Start

LifeStop == Stop

\* a live timer fires, at most once per millisecond
LifeTimer ==
    \E f \in CfgFactors, v \in TickVolumes :
        clock > lastUpdateTime /\ TimerTick(f, v)

NextLifecycle == LifeElapse \/ LifeStart \/ LifeStop \/ LifeTimer

SpecLifecycle == InitLifecycle /\ [][NextLifecycle]_vars

\* ---- C28
\* a tick that also ingests: the timer callback
TimerDriven == IsTick /\ currentCandles' # currentCandles

\* C28: after any sequence of start and stop calls at most one periodic
\* driver is active, the one start recorded; a start while running creates no
\* second timer, after a stop no timer-driven tick occurs until the next
\* start, and a stop when not running changes nothing.
C28_SingleDriver ==
    [][/\ Cardinality(timers') <= 1
       /\ timers' = IF intervalId' = 0 THEN {} ELSE {intervalId'}
       /\ TimerDriven => (intervalId # 0 /\ timers = {intervalId})
       /\ (intervalId # 0 /\ intervalId' # 0) => timers' = timers
       /\ (intervalId = 0 /\ intervalId' = 0) => timers' = timers]_vars

\* stopped after having ticked, and time has passed without a tick
C28_Witness ==
    /\ intervalId = 0 /\ timers = {}
    /\ Len(produced) >= 2
    /\ clock > lastUpdateTime
    /\ steps = MaxSteps

====
